---------------------------- MODULE Spec2Model ----------------------------
(***************************************************************************)
(* State-machine model of the MusicStream backend (fritute/Music_Project_  *)
(* Back): the request handlers of routes/auth_routes.py, routes/           *)
(* favorite_routes.py, routes/playlist_routes.py and routes/music_routes.py *)
(* running against one MongoDB database.                                   *)
(*                                                                         *)
(* Every handler is an asyncio coroutine: the code between two awaits runs *)
(* without interleaving, and every awaited store call (find_one,           *)
(* insert_one, update_one, delete_one, ping) is atomic in the store.  One  *)
(* action of the model is therefore one awaited store call together with   *)
(* the Python code that follows it up to the next await (or the return /   *)
(* raise).  Requests are served by NumProcs request slots.                 *)
(*                                                                         *)
(* Ids are well-formed ObjectId strings; ObjectId(s) and str(oid) are      *)
(* inverse bijections on them, so an id is modelled as a positive number   *)
(* and 0 stands for Python's None (no document).                           *)
(***************************************************************************)
EXTENDS Integers, Sequences, FiniteSets, TLC

(***************************************************************************)
(* Bounds of the model.                                                    *)
(***************************************************************************)
NumProcs == 2          \* request slots (in-flight requests)
MaxUsers == 3          \* cap on the documents of db.users
MaxPlaylists == 2      \* cap on the playlists ever created
NumTracks == 2         \* track ids a request may name

Procs == 1 .. NumProcs
Emails == {"a@x.io", "b@x.io"}
Names == {"Ann", "Bob"}
Passwords == {"pw1", "pw2"}
TrackIds == 1 .. NumTracks
PlaylistIds == 1 .. MaxPlaylists

VARIABLES
    mode,        \* "serial": one request at a time; "concurrent": slots interleave
    client,      \* server.client: "none" or the endpoint of the Motor client
    db,          \* server.db: "none" or the endpoint of the database handle
    up,          \* the endpoints whose server answers a ping
    indexes,     \* the indexes that exist in the database
    clients,     \* every AsyncIOMotorClient constructed so far: [url, open]
    phase,       \* the process: "starting", "serving" or "stopped"
    users,       \* db.users:     _id -> document
    musics,      \* db.musics:    _id -> document
    playlists,   \* db.playlists: _id -> document
    nextId,      \* ObjectId generation: next fresh _id per collection
    pc,          \* per slot: the await the request is suspended at
    call,        \* per slot: the request (handler and arguments)
    loc,         \* per slot: the handler's local variables that outlive an await
    result,      \* per slot: the HTTP response of the finished request
    files,       \* the blob storage: the names of the files of uploads/music
    db_client,   \* history: the index in clients of the client db came from
    pinged,      \* history: the indexes in clients of the clients that have
                 \* answered the ping of init_database
    pre,         \* serial history: the store when the slot's request started
    first        \* serial history: the first call of a request issued twice

store == [users |-> users, musics |-> musics, playlists |-> playlists]
conn == <<client, db, up, indexes, clients, phase>>
vars == <<mode, client, db, up, indexes, clients, phase, users, musics,
          playlists, nextId, pc, call, loc, result, files, db_client, pinged,
          pre, first>>

(***************************************************************************)
(* HTTP responses.  An HTTPException raised by a handler becomes           *)
(* {status_code, detail} (server.py http_exception_handler_with_cors); any *)
(* other exception becomes 500 "Internal server error"                     *)
(* (server.py global_exception_handler).                                   *)
(***************************************************************************)
Response(status, detail, body) == [status |-> status, detail |-> detail, body |-> body]
HTTPException(status, detail) == Response(status, detail, "")
global_exception_handler(exc) == Response(500, "Internal server error", exc)

NoCall == [op |-> "idle", user |-> 0, target |-> 0, arg |-> ""]
NoResult == Response(0, "", "")
NoFirst == [called |-> FALSE, result |-> NoResult, pre |-> ""]

\* The error kinds of the specification, as the responses the handlers give.
DuplicateEmail == HTTPException(400, "Email already registered")
TrackNotFound == HTTPException(404, "Music not found")
PlaylistNotFound == HTTPException(404, "Playlist not found")
Is(r, e) == r.status = e.status /\ r.detail = e.detail
IsForbidden(r) == r.status = 403

\* AsyncIOMotorClient(url, ...): a new, open client.
AsyncIOMotorClient(url) == [url |-> url, open |-> TRUE]

Min(S) == CHOOSE x \in S : \A y \in S : x <= y
Remove(seq, x) == SelectSeq(seq, LAMBDA y : y # x)
Elems(seq) == {seq[i] : i \in DOMAIN seq}
Occurrences(seq, x) == Cardinality({i \in DOMAIN seq : seq[i] = x})

(***************************************************************************)
(* auth.hash_password: an opaque one-way capability.                       *)
(***************************************************************************)
hash_password(pw) == <<"hash", pw>>

(***************************************************************************)
(* database_utils.init_collections, when every step succeeds: the indexes  *)
(* it leaves in the database.                                              *)
(***************************************************************************)
\* Faulty variant: the index on users.email is created without unique=True.
init_collections_no_unique ==
    {"musics.text", "musics.uploadedBy", "musics.createdAt",
     "playlists.userId", "playlists.createdAt"}

init_collections ==
    {"users.email.unique", "musics.text", "musics.uploadedBy", "musics.createdAt",
     "playlists.userId", "playlists.createdAt"}

(***************************************************************************)
(* Store primitives (Motor collection methods).                            *)
(***************************************************************************)
\* find_one({"email": e}) on db.users: the first matching document, or None.
find_user_by_email(e) ==
    LET S == {i \in DOMAIN users : users[i].email = e}
    IN  IF S = {} THEN 0 ELSE Min(S)

\* find_one({"_id": ObjectId(id)})
find_by_id(coll, id) == IF id \in DOMAIN coll THEN id ELSE 0

\* find(filter).to_list(1000): the documents of coll that match, ids being
\* their _ids, each once, in the order of the collection.
RECURSIVE find_in(_, _, _)
find_in(coll, ids, from) ==
    IF \A i \in DOMAIN coll : i < from THEN <<>>
    ELSE LET i == Min({j \in DOMAIN coll : j >= from})
         IN  (IF i \in ids THEN <<[id |-> i] @@ coll[i]>> ELSE <<>>)
             \o find_in(coll, ids, i + 1)

\* insert_one on db.users: the unique index on email rejects a second
\* document with the same email (pymongo DuplicateKeyError).
users_insert_raises(doc) ==
    /\ "users.email.unique" \in indexes
    /\ \E i \in DOMAIN users : users[i].email = doc.email

(***************************************************************************)
(* Handles of server.py (server.client, server.db).                        *)
(***************************************************************************)
\* client.close() on the client server.client refers to.
close(cs) == [cs EXCEPT ![Len(cs)].open = FALSE]
closed == client # "none" /\ ~clients[Len(clients)].open

\* An operation awaited on the handle h of server.py (client.admin.command
\* ('ping'), db[...].count_documents): TRUE when it is answered, FALSE when
\* it raises.  On a client that close() was called on, PyMongo 4 raises
\* InvalidOperation and earlier releases reconnect: both outcomes.
answers(h) ==
    IF h = "none" \/ h \notin up THEN {FALSE}
    ELSE IF closed THEN {TRUE, FALSE}
    ELSE {TRUE}

\* "client and db" / "not client or not db": the truth value of the client,
\* then (short-circuit) of the database handle.  bool() of a Motor database
\* handle is delegated to PyMongo's Database: True up to PyMongo 3 (Motor 2),
\* NotImplementedError from PyMongo 4 on (Motor 3).  No release is pinned:
\* both outcomes.
client_and_db ==
    IF client = "none" THEN {"False"}
    ELSE IF db = "none" THEN {"False"}
    ELSE {"True", "NotImplementedError"}

\* The exception a collection method awaited on handle h raises, "" when
\* the call is answered.
store_error(h) ==
    IF h = "none" THEN "AttributeError"
    ELSE IF h \notin up THEN "ServerSelectionTimeoutError"
    ELSE ""

(***************************************************************************)
(* Request life cycle.                                                     *)
(***************************************************************************)
Idle(p) == pc[p] = "idle"
Done(p) == pc[p] = "done"
OthersIdle(p) == \A q \in Procs \ {p} : pc[q] = "idle"

\* The await a handler first suspends at.
Entry(op) ==
    CASE op = "register" -> "register_get_database"
      [] op = "toggle_favorite" -> "toggle_find_music"
      [] op = "create_playlist" -> "create_insert_one"
      [] op = "update_playlist" -> "update_find_one"
      [] op = "delete_playlist" -> "delete_find_one"
      [] op = "add_music_to_playlist" -> "add_find_one"
      [] op = "remove_music_from_playlist" -> "remove_find_one"
      [] op = "delete_music" -> "delete_music_find_one"
      [] op = "get_favorites" -> "favorites_find_user"
      [] op = "upload_music" -> "upload_music"
      [] op = "get_user_playlists" -> "playlists_find"
      [] op = "get_playlist" -> "playlist_find_one"
      [] op = "startup_event" -> "startup_event"
      [] op = "render_root" -> "render_root"
      [] op = "health_check" -> "health_check"
      [] op = "test_database_connection" -> "db_test"

\* A request is accepted; in serial mode only when no other is in flight.
Begin(p, c) ==
    /\ Idle(p)
    /\ mode = "serial" => OthersIdle(p)
    /\ (c.op = "startup_event") = (phase = "starting")
    /\ pc' = [pc EXCEPT ![p] = Entry(c.op)]
    /\ call' = [call EXCEPT ![p] = c]
    /\ pre' = IF mode = "serial" THEN [pre EXCEPT ![p] = store] ELSE pre
    /\ UNCHANGED <<loc, result, first>>

\* The handler returns or raises: the response is r.
Finish(p, r) ==
    /\ pc' = [pc EXCEPT ![p] = "done"]
    /\ result' = [result EXCEPT ![p] = r]
    /\ loc' = [loc EXCEPT ![p] = ""]

Goto(p, next, l) ==
    /\ pc' = [pc EXCEPT ![p] = next]
    /\ loc' = [loc EXCEPT ![p] = l]
    /\ UNCHANGED result

\* The response has been delivered; the slot is free again.
Return(p) ==
    /\ Done(p)
    /\ pc' = [pc EXCEPT ![p] = "idle"]
    /\ call' = [call EXCEPT ![p] = NoCall]
    /\ result' = [result EXCEPT ![p] = NoResult]
    /\ pre' = [pre EXCEPT ![p] = ""]
    /\ first' = [first EXCEPT ![p] = NoFirst]
    /\ UNCHANGED <<mode, files, db_client, pinged, conn, users, musics,
                   playlists, nextId, loc>>

\* The client issues the request it was just answered a second time, before
\* any other request is served (two consecutive calls).
Repeat(p) ==
    /\ mode = "serial"
    /\ Done(p)
    /\ ~first[p].called
    /\ first' = [first EXCEPT ![p] =
                    [called |-> TRUE, result |-> result[p], pre |-> pre[p]]]
    /\ pc' = [pc EXCEPT ![p] = Entry(call[p].op)]
    /\ result' = [result EXCEPT ![p] = NoResult]
    /\ pre' = [pre EXCEPT ![p] = store]
    /\ UNCHANGED <<mode, files, db_client, pinged, conn, users, musics,
                   playlists, nextId, call, loc>>

(***************************************************************************)
(* routes/auth_routes.py                                                   *)
(***************************************************************************)
\* get_database(): 503 unless server.db and server.client are set and the
\* client answers a ping.
get_database_ok == db # "none" /\ client # "none" /\ client \in up

get_database_error ==
    IF db = "none" \/ client = "none"
    THEN HTTPException(503, "Database service unavailable")
    ELSE HTTPException(503, "Database connection failed")

register_begin(p) ==
    /\ \E e \in Emails, n \in Names, pw \in Passwords :
          Begin(p, [op |-> "register", user |-> 0, target |-> 0,
                    arg |-> [name |-> n, email |-> e, password |-> pw]])
    /\ UNCHANGED <<mode, files, db_client, pinged, conn, users, musics,
                   playlists, nextId>>

\* db = await get_database()
register_get_database(p) ==
    /\ pc[p] = "register_get_database"
    /\ \E ok \in IF closed THEN {get_database_ok, FALSE} ELSE {get_database_ok} :
          IF ok
          THEN Goto(p, "register_find_one", "")
          ELSE Finish(p, get_database_error)
    /\ UNCHANGED <<mode, files, db_client, pinged, conn, users, musics,
                   playlists, nextId, call, pre, first>>

\* Faulty variant: the handler inserts without looking for an existing account.
register_find_one_unchecked(p) ==
    /\ pc[p] = "register_find_one"
    /\ Goto(p, "register_insert_one", "")
    /\ UNCHANGED <<mode, files, db_client, pinged, conn, users, musics,
                   playlists, nextId, call, pre, first>>

\* existing_user = await db.users.find_one({"email": user.email})
register_find_one(p) ==
    /\ pc[p] = "register_find_one"
    /\ IF store_error(db) # ""
       THEN Finish(p, global_exception_handler(store_error(db)))
       ELSE IF find_user_by_email(call[p].arg.email) # 0
       THEN Finish(p, DuplicateEmail)
       ELSE Goto(p, "register_insert_one", "")
    /\ UNCHANGED <<mode, files, db_client, pinged, conn, users, musics,
                   playlists, nextId, call, pre, first>>

\* result = await db.users.insert_one(user_dict), then the TokenResponse.
register_insert_one(p) ==
    /\ pc[p] = "register_insert_one"
    /\ nextId.users <= MaxUsers
    /\ LET user_dict == [name |-> call[p].arg.name,
                         email |-> call[p].arg.email,
                         password |-> hash_password(call[p].arg.password),
                         favoriteIds |-> <<>>]
           id == nextId.users
       IN  IF store_error(db) # ""
           THEN /\ Finish(p, global_exception_handler(store_error(db)))
                /\ UNCHANGED <<users, nextId>>
           ELSE IF users_insert_raises(user_dict)
           THEN /\ Finish(p, global_exception_handler("DuplicateKeyError"))
                /\ UNCHANGED <<users, nextId>>
           ELSE /\ users' = (id :> user_dict) @@ users
                /\ nextId' = [nextId EXCEPT !.users = id + 1]
                /\ Finish(p, Response(201, "", [id |-> id, name |-> user_dict.name,
                                                email |-> user_dict.email,
                                                favoriteIds |-> <<>>]))
    /\ UNCHANGED <<mode, files, db_client, pinged, conn, musics, playlists,
                   call, pre, first>>

register(p) ==
    \/ register_begin(p)
    \/ register_get_database(p)
    \/ register_find_one(p)
    \/ register_insert_one(p)

(***************************************************************************)
(* The database handle of routes/favorite_routes.py and                    *)
(* routes/playlist_routes.py: "from server import db" binds, when the      *)
(* route module is imported, the handle server.py made at module level     *)
(* from MONGO_URL.  A store call on it raises when there is no handle      *)
(* (AttributeError on None) or its server does not answer.                 *)
(***************************************************************************)
routes_db == "Atlas"


\* get_current_user_id: the account a bearer token was issued to.
Callers == DOMAIN users

(***************************************************************************)
(* routes/favorite_routes.py                                               *)
(***************************************************************************)
Added == Response(200, "Added to favorites", [isFavorite |-> TRUE])
Removed == Response(200, "Removed from favorites", [isFavorite |-> FALSE])

toggle_favorite_begin(p) ==
    /\ \E u \in Callers, t \in TrackIds :
          Begin(p, [op |-> "toggle_favorite", user |-> u, target |-> t, arg |-> ""])
    /\ UNCHANGED <<mode, files, db_client, pinged, conn, users, musics,
                   playlists, nextId>>

\* Faulty variant: the track is not looked up before the account is read.
toggle_favorite_find_music_unchecked(p) ==
    /\ pc[p] = "toggle_find_music"
    /\ Goto(p, "toggle_find_user", "")
    /\ UNCHANGED <<mode, files, db_client, pinged, conn, users, musics,
                   playlists, nextId, call, pre, first>>

\* music = await db.musics.find_one({"_id": ObjectId(music_id)})
toggle_favorite_find_music(p) ==
    /\ pc[p] = "toggle_find_music"
    /\ IF store_error(routes_db) # ""
       THEN Finish(p, global_exception_handler(store_error(routes_db)))
       ELSE IF find_by_id(musics, call[p].target) = 0
       THEN Finish(p, TrackNotFound)
       ELSE Goto(p, "toggle_find_user", "")
    /\ UNCHANGED <<mode, files, db_client, pinged, conn, users, musics,
                   playlists, nextId, call, pre, first>>

\* Faulty variant: the membership test is lost and the handler always pushes.
toggle_favorite_find_user_always_push(p) ==
    /\ pc[p] = "toggle_find_user"
    /\ Goto(p, "toggle_update", [member |-> FALSE])
    /\ UNCHANGED <<mode, files, db_client, pinged, conn, users, musics,
                   playlists, nextId, call, pre, first>>

\* user = await db.users.find_one({"_id": ObjectId(user_id)})
\* favorite_ids = user.get('favoriteIds', []); the branch "music_id in
\* favorite_ids" is decided on this copy.
toggle_favorite_find_user(p) ==
    /\ pc[p] = "toggle_find_user"
    /\ IF store_error(routes_db) # ""
       THEN Finish(p, global_exception_handler(store_error(routes_db)))
       ELSE IF find_by_id(users, call[p].user) = 0
       THEN Finish(p, global_exception_handler("AttributeError"))
       ELSE Goto(p, "toggle_update",
                 [member |-> call[p].target \in Elems(users[call[p].user].favoriteIds)])
    /\ UNCHANGED <<mode, files, db_client, pinged, conn, users, musics,
                   playlists, nextId, call, pre, first>>

\* update_one({"_id": user}, {"$pull" | "$push": {"favoriteIds": music_id}})
\* $pull removes every occurrence, $push appends; no document matched: no-op.
update_favoriteIds(u, op, t) ==
    IF u \notin DOMAIN users THEN users
    ELSE [users EXCEPT ![u].favoriteIds =
             IF op = "$pull" THEN Remove(@, t) ELSE Append(@, t)]

toggle_favorite_update(p) ==
    /\ pc[p] = "toggle_update"
    /\ IF store_error(routes_db) # ""
       THEN /\ Finish(p, global_exception_handler(store_error(routes_db)))
            /\ UNCHANGED users
       ELSE IF loc[p].member
       THEN /\ users' = update_favoriteIds(call[p].user, "$pull", call[p].target)
            /\ Finish(p, Removed)
       ELSE /\ users' = update_favoriteIds(call[p].user, "$push", call[p].target)
            /\ Finish(p, Added)
    /\ UNCHANGED <<mode, files, db_client, pinged, conn, musics, playlists,
                   nextId, call, pre, first>>

toggle_favorite(p) ==
    \/ toggle_favorite_begin(p)
    \/ toggle_favorite_find_music(p)
    \/ toggle_favorite_find_user(p)
    \/ toggle_favorite_update(p)

\* GET /api/favorites
get_favorites_begin(p) ==
    /\ \E u \in Callers :
          Begin(p, [op |-> "get_favorites", user |-> u, target |-> 0, arg |-> ""])
    /\ UNCHANGED <<mode, files, db_client, pinged, conn, users, musics,
                   playlists, nextId>>

\* user = await db.users.find_one({"_id": ObjectId(user_id)})
\* favorite_ids = user.get('favoriteIds', []); "if not favorite_ids: return []"
get_favorites_find_user(p) ==
    /\ pc[p] = "favorites_find_user"
    /\ IF store_error(routes_db) # ""
       THEN Finish(p, global_exception_handler(store_error(routes_db)))
       ELSE IF find_by_id(users, call[p].user) = 0
       THEN Finish(p, global_exception_handler("AttributeError"))
       ELSE IF users[call[p].user].favoriteIds = <<>>
       THEN Finish(p, Response(200, "", <<>>))
       ELSE Goto(p, "favorites_find_musics",
                 [favorite_ids |-> users[call[p].user].favoriteIds])
    /\ UNCHANGED <<mode, files, db_client, pinged, conn, users, musics,
                   playlists, nextId, call, pre, first>>

\* musics = await db.musics.find({"_id": {"$in": [...]}}).to_list(1000)
get_favorites_find_musics(p) ==
    /\ pc[p] = "favorites_find_musics"
    /\ IF store_error(routes_db) # ""
       THEN Finish(p, global_exception_handler(store_error(routes_db)))
       ELSE Finish(p, Response(200, "",
                                find_in(musics, Elems(loc[p].favorite_ids), 1)))
    /\ UNCHANGED <<mode, files, db_client, pinged, conn, users, musics,
                   playlists, nextId, call, pre, first>>

get_favorites(p) ==
    \/ get_favorites_begin(p)
    \/ get_favorites_find_user(p)
    \/ get_favorites_find_musics(p)

(***************************************************************************)
(* routes/playlist_routes.py                                               *)
(***************************************************************************)
NoneValue == "<None>"
CreateNames == {"mix"}
UpdateNames == {NoneValue, "gym"}
UpdateDescriptions == {NoneValue, "chill"}

Forbidden(what) == HTTPException(403, what)
PlaylistResponse(id, doc) == Response(200, "", [id |-> id] @@ doc)

\* Faulty variant: the guard checks existence only.
playlist_guard_no_owner(id, user_id, what) ==
    IF find_by_id(playlists, id) = 0 THEN PlaylistNotFound ELSE NoResult

\* The guard shared by the handlers on one playlist: the response raised
\* after playlist = await db.playlists.find_one({"_id": ObjectId(playlist_id)}),
\* or NoResult when the handler goes on.  Existence first, then ownership.
playlist_guard(id, user_id, what) ==
    IF find_by_id(playlists, id) = 0 THEN PlaylistNotFound
    ELSE IF playlists[id].userId # user_id THEN Forbidden(what)
    ELSE NoResult

\* updated_playlist = await db.playlists.find_one(...); PlaylistResponse(...)
\* subscripts it: a missing document raises TypeError.
playlist_refetch(p) ==
    IF store_error(routes_db) # ""
    THEN Finish(p, global_exception_handler(store_error(routes_db)))
    ELSE IF find_by_id(playlists, call[p].target) = 0
    THEN Finish(p, global_exception_handler("TypeError"))
    ELSE Finish(p, PlaylistResponse(call[p].target, playlists[call[p].target]))

\* Faulty variant: the update replaces the document's content: the fields
\* that are not supplied are reset.
playlists_set_replaces(id, fields, arg) ==
    IF id \notin DOMAIN playlists THEN playlists
    ELSE [playlists EXCEPT ![id] =
             [k \in DOMAIN @ |-> IF k \in fields THEN arg[k]
                                 ELSE IF k = "musicIds" THEN <<>>
                                 ELSE IF k = "userId" THEN 0
                                 ELSE @[k]]]

\* update_one({"_id": id}, {"$set": update_data}) on db.playlists; no
\* document matched: no-op.
playlists_set(id, fields, arg) ==
    IF id \notin DOMAIN playlists THEN playlists
    ELSE [playlists EXCEPT ![id] =
             [k \in DOMAIN @ |-> IF k \in fields THEN arg[k] ELSE @[k]]]

\* update_one({"_id": id}, {"$push" | "$pull": {"musicIds": t}})
playlists_musicIds(id, op, t) ==
    IF id \notin DOMAIN playlists THEN playlists
    ELSE [playlists EXCEPT ![id].musicIds =
             IF op = "$pull" THEN Remove(@, t) ELSE Append(@, t)]

Drop(f, id) == [i \in DOMAIN f \ {id} |-> f[i]]

create_playlist(p) ==
    /\ \E u \in Callers, n \in CreateNames :
          Begin(p, [op |-> "create_playlist", user |-> u, target |-> 0,
                    arg |-> [name |-> n, description |-> NoneValue]])
    /\ UNCHANGED <<mode, files, db_client, pinged, conn, users, musics,
                   playlists, nextId>>

\* result = await db.playlists.insert_one(playlist_dict).  createdAt,
\* datetime.utcnow(), is a logical time: the rank of the insertion.
create_playlist_insert_one(p) ==
    /\ pc[p] = "create_insert_one"
    /\ nextId.playlists <= MaxPlaylists
    /\ IF store_error(routes_db) # ""
       THEN /\ Finish(p, global_exception_handler(store_error(routes_db)))
            /\ UNCHANGED <<playlists, nextId>>
       ELSE LET id == nextId.playlists
                playlist_dict ==
                    [name |-> call[p].arg.name,
                     description |-> IF call[p].arg.description = NoneValue
                                     THEN "" ELSE call[p].arg.description,
                     userId |-> call[p].user,
                     musicIds |-> <<>>,
                     createdAt |-> id]
            IN  /\ playlists' = (id :> playlist_dict) @@ playlists
                /\ nextId' = [nextId EXCEPT !.playlists = id + 1]
                /\ Finish(p, Response(201, "", [id |-> id] @@ playlist_dict))
    /\ UNCHANGED <<mode, files, db_client, pinged, conn, users, musics, call,
                   pre, first>>

update_playlist_begin(p) ==
    /\ \E u \in Callers, id \in PlaylistIds, n \in UpdateNames, d \in UpdateDescriptions :
          Begin(p, [op |-> "update_playlist", user |-> u, target |-> id,
                    arg |-> [name |-> n, description |-> d]])
    /\ UNCHANGED <<mode, files, db_client, pinged, conn, users, musics,
                   playlists, nextId>>

\* update_data = {k: v for k, v in playlist.dict().items() if v is not None}
update_data(arg) == {k \in {"name", "description"} : arg[k] # NoneValue}

update_playlist_find_one(p) ==
    /\ pc[p] = "update_find_one"
    /\ IF store_error(routes_db) # ""
       THEN Finish(p, global_exception_handler(store_error(routes_db)))
       ELSE LET g == playlist_guard(call[p].target, call[p].user,
                                    "Not authorized to update this playlist")
            IN  IF g # NoResult THEN Finish(p, g)
                ELSE IF update_data(call[p].arg) # {}
                THEN Goto(p, "update_update_one", "")
                ELSE Goto(p, "update_refetch", "")
    /\ UNCHANGED <<mode, files, db_client, pinged, conn, users, musics,
                   playlists, nextId, call, pre, first>>

\* await db.playlists.update_one({"_id": ...}, {"$set": update_data})
update_playlist_update_one(p) ==
    /\ pc[p] = "update_update_one"
    /\ IF store_error(routes_db) # ""
       THEN /\ Finish(p, global_exception_handler(store_error(routes_db)))
            /\ UNCHANGED playlists
       ELSE /\ playlists' = playlists_set(call[p].target, update_data(call[p].arg),
                                          call[p].arg)
            /\ Goto(p, "update_refetch", "")
    /\ UNCHANGED <<mode, files, db_client, pinged, conn, users, musics,
                   nextId, call, pre, first>>

update_playlist_refetch(p) ==
    /\ pc[p] = "update_refetch"
    /\ playlist_refetch(p)
    /\ UNCHANGED <<mode, files, db_client, pinged, conn, users, musics,
                   playlists, nextId, call, pre, first>>

update_playlist(p) ==
    \/ update_playlist_begin(p)
    \/ update_playlist_find_one(p)
    \/ update_playlist_update_one(p)
    \/ update_playlist_refetch(p)

delete_playlist_begin(p) ==
    /\ \E u \in Callers, id \in PlaylistIds :
          Begin(p, [op |-> "delete_playlist", user |-> u, target |-> id, arg |-> ""])
    /\ UNCHANGED <<mode, files, db_client, pinged, conn, users, musics,
                   playlists, nextId>>

delete_playlist_find_one(p) ==
    /\ pc[p] = "delete_find_one"
    /\ IF store_error(routes_db) # ""
       THEN Finish(p, global_exception_handler(store_error(routes_db)))
       ELSE LET g == playlist_guard(call[p].target, call[p].user,
                                    "Not authorized to delete this playlist")
            IN  IF g # NoResult THEN Finish(p, g)
                ELSE Goto(p, "delete_delete_one", "")
    /\ UNCHANGED <<mode, files, db_client, pinged, conn, users, musics,
                   playlists, nextId, call, pre, first>>

\* await db.playlists.delete_one({"_id": ObjectId(playlist_id)}); return None
delete_playlist_delete_one(p) ==
    /\ pc[p] = "delete_delete_one"
    /\ IF store_error(routes_db) # ""
       THEN /\ Finish(p, global_exception_handler(store_error(routes_db)))
            /\ UNCHANGED playlists
       ELSE /\ playlists' = Drop(playlists, call[p].target)
            /\ Finish(p, Response(204, "", ""))
    /\ UNCHANGED <<mode, files, db_client, pinged, conn, users, musics,
                   nextId, call, pre, first>>

delete_playlist(p) ==
    \/ delete_playlist_begin(p)
    \/ delete_playlist_find_one(p)
    \/ delete_playlist_delete_one(p)

add_music_to_playlist_begin(p) ==
    /\ \E u \in Callers, id \in PlaylistIds, t \in TrackIds :
          Begin(p, [op |-> "add_music_to_playlist", user |-> u, target |-> id,
                    arg |-> t])
    /\ UNCHANGED <<mode, files, db_client, pinged, conn, users, musics,
                   playlists, nextId>>

\* The playlist read here is the copy "music_data.musicId not in
\* playlist.get('musicIds', [])" is decided on, two awaits later.
add_music_to_playlist_find_one(p) ==
    /\ pc[p] = "add_find_one"
    /\ IF store_error(routes_db) # ""
       THEN Finish(p, global_exception_handler(store_error(routes_db)))
       ELSE LET g == playlist_guard(call[p].target, call[p].user,
                                    "Not authorized to modify this playlist")
            IN  IF g # NoResult THEN Finish(p, g)
                ELSE Goto(p, "add_find_music",
                          [present |-> call[p].arg \in
                                          Elems(playlists[call[p].target].musicIds)])
    /\ UNCHANGED <<mode, files, db_client, pinged, conn, users, musics,
                   playlists, nextId, call, pre, first>>

\* Faulty variant: the track is pushed whether or not the playlist already has it.
add_music_to_playlist_find_music_always_push(p) ==
    /\ pc[p] = "add_find_music"
    /\ IF find_by_id(musics, call[p].arg) = 0
       THEN Finish(p, TrackNotFound)
       ELSE Goto(p, "add_update_one", "")
    /\ UNCHANGED <<mode, files, db_client, pinged, conn, users, musics,
                   playlists, nextId, call, pre, first>>

\* Faulty variant: the track is not looked up before it is added.
add_music_to_playlist_find_music_unverified(p) ==
    /\ pc[p] = "add_find_music"
    /\ IF ~loc[p].present
       THEN Goto(p, "add_update_one", "")
       ELSE Goto(p, "add_refetch", "")
    /\ UNCHANGED <<mode, files, db_client, pinged, conn, users, musics,
                   playlists, nextId, call, pre, first>>

\* music = await db.musics.find_one({"_id": ObjectId(music_data.musicId)})
add_music_to_playlist_find_music(p) ==
    /\ pc[p] = "add_find_music"
    /\ IF store_error(routes_db) # ""
       THEN Finish(p, global_exception_handler(store_error(routes_db)))
       ELSE IF find_by_id(musics, call[p].arg) = 0
       THEN Finish(p, TrackNotFound)
       ELSE IF ~loc[p].present
       THEN Goto(p, "add_update_one", "")
       ELSE Goto(p, "add_refetch", "")
    /\ UNCHANGED <<mode, files, db_client, pinged, conn, users, musics,
                   playlists, nextId, call, pre, first>>

\* await db.playlists.update_one(..., {"$push": {"musicIds": musicId}})
add_music_to_playlist_update_one(p) ==
    /\ pc[p] = "add_update_one"
    /\ IF store_error(routes_db) # ""
       THEN /\ Finish(p, global_exception_handler(store_error(routes_db)))
            /\ UNCHANGED playlists
       ELSE /\ playlists' = playlists_musicIds(call[p].target, "$push", call[p].arg)
            /\ Goto(p, "add_refetch", "")
    /\ UNCHANGED <<mode, files, db_client, pinged, conn, users, musics,
                   nextId, call, pre, first>>

add_music_to_playlist_refetch(p) ==
    /\ pc[p] = "add_refetch"
    /\ playlist_refetch(p)
    /\ UNCHANGED <<mode, files, db_client, pinged, conn, users, musics,
                   playlists, nextId, call, pre, first>>

add_music_to_playlist(p) ==
    \/ add_music_to_playlist_begin(p)
    \/ add_music_to_playlist_find_one(p)
    \/ add_music_to_playlist_find_music(p)
    \/ add_music_to_playlist_update_one(p)
    \/ add_music_to_playlist_refetch(p)

remove_music_from_playlist_begin(p) ==
    /\ \E u \in Callers, id \in PlaylistIds, t \in TrackIds :
          Begin(p, [op |-> "remove_music_from_playlist", user |-> u, target |-> id,
                    arg |-> t])
    /\ UNCHANGED <<mode, files, db_client, pinged, conn, users, musics,
                   playlists, nextId>>

\* Faulty variant: removing a track the playlist does not hold is an error.
remove_music_from_playlist_find_one_needs_member(p) ==
    /\ pc[p] = "remove_find_one"
    /\ LET g == playlist_guard(call[p].target, call[p].user,
                               "Not authorized to modify this playlist")
       IN  IF g # NoResult THEN Finish(p, g)
           ELSE IF call[p].arg \notin Elems(playlists[call[p].target].musicIds)
           THEN Finish(p, TrackNotFound)
           ELSE Goto(p, "remove_update_one", "")
    /\ UNCHANGED <<mode, files, db_client, pinged, conn, users, musics,
                   playlists, nextId, call, pre, first>>

remove_music_from_playlist_find_one(p) ==
    /\ pc[p] = "remove_find_one"
    /\ IF store_error(routes_db) # ""
       THEN Finish(p, global_exception_handler(store_error(routes_db)))
       ELSE LET g == playlist_guard(call[p].target, call[p].user,
                                    "Not authorized to modify this playlist")
            IN  IF g # NoResult THEN Finish(p, g)
                ELSE Goto(p, "remove_update_one", "")
    /\ UNCHANGED <<mode, files, db_client, pinged, conn, users, musics,
                   playlists, nextId, call, pre, first>>

\* await db.playlists.update_one(..., {"$pull": {"musicIds": music_id}})
remove_music_from_playlist_update_one(p) ==
    /\ pc[p] = "remove_update_one"
    /\ IF store_error(routes_db) # ""
       THEN /\ Finish(p, global_exception_handler(store_error(routes_db)))
            /\ UNCHANGED playlists
       ELSE /\ playlists' = playlists_musicIds(call[p].target, "$pull", call[p].arg)
            /\ Goto(p, "remove_refetch", "")
    /\ UNCHANGED <<mode, files, db_client, pinged, conn, users, musics,
                   nextId, call, pre, first>>

remove_music_from_playlist_refetch(p) ==
    /\ pc[p] = "remove_refetch"
    /\ playlist_refetch(p)
    /\ UNCHANGED <<mode, files, db_client, pinged, conn, users, musics,
                   playlists, nextId, call, pre, first>>

remove_music_from_playlist(p) ==
    \/ remove_music_from_playlist_begin(p)
    \/ remove_music_from_playlist_find_one(p)
    \/ remove_music_from_playlist_update_one(p)
    \/ remove_music_from_playlist_refetch(p)

\* GET /api/playlists
get_user_playlists_begin(p) ==
    /\ \E u \in Callers :
          Begin(p, [op |-> "get_user_playlists", user |-> u, target |-> 0,
                    arg |-> ""])
    /\ UNCHANGED <<mode, files, db_client, pinged, conn, users, musics,
                   playlists, nextId>>

\* playlists = await db.playlists.find({"userId": user_id}).to_list(1000)
get_user_playlists_find(p) ==
    /\ pc[p] = "playlists_find"
    /\ IF store_error(routes_db) # ""
       THEN Finish(p, global_exception_handler(store_error(routes_db)))
       ELSE Finish(p, Response(200, "",
                find_in(playlists,
                        {id \in DOMAIN playlists :
                            playlists[id].userId = call[p].user}, 1)))
    /\ UNCHANGED <<mode, files, db_client, pinged, conn, users, musics,
                   playlists, nextId, call, pre, first>>

get_user_playlists(p) ==
    \/ get_user_playlists_begin(p)
    \/ get_user_playlists_find(p)

\* GET /api/playlists/{playlist_id}
get_playlist_begin(p) ==
    /\ \E u \in Callers, id \in PlaylistIds :
          Begin(p, [op |-> "get_playlist", user |-> u, target |-> id, arg |-> ""])
    /\ UNCHANGED <<mode, files, db_client, pinged, conn, users, musics,
                   playlists, nextId>>

\* Faulty variant: whoever asks is given the playlist.
get_playlist_find_one_unguarded(p) ==
    /\ pc[p] = "playlist_find_one"
    /\ IF find_by_id(playlists, call[p].target) = 0
       THEN Finish(p, PlaylistNotFound)
       ELSE Finish(p, PlaylistResponse(call[p].target, playlists[call[p].target]))
    /\ UNCHANGED <<mode, files, db_client, pinged, conn, users, musics,
                   playlists, nextId, call, pre, first>>

\* playlist = await db.playlists.find_one({"_id": ObjectId(playlist_id)}),
\* 404, 403, PlaylistResponse.
get_playlist_find_one(p) ==
    /\ pc[p] = "playlist_find_one"
    /\ IF store_error(routes_db) # ""
       THEN Finish(p, global_exception_handler(store_error(routes_db)))
       ELSE LET g == playlist_guard(call[p].target, call[p].user,
                                    "Not authorized to access this playlist")
            IN  IF g # NoResult THEN Finish(p, g)
                ELSE Finish(p, PlaylistResponse(call[p].target,
                                                playlists[call[p].target]))
    /\ UNCHANGED <<mode, files, db_client, pinged, conn, users, musics,
                   playlists, nextId, call, pre, first>>

get_playlist(p) ==
    \/ get_playlist_begin(p)
    \/ get_playlist_find_one(p)

(***************************************************************************)
(* routes/music_routes.py                                                  *)
(*                                                                         *)
(* The module binds no global named db: get_database() imports server.db   *)
(* into its own scope and only upload_music calls it.  delete_music        *)
(* evaluates the free name db in its first statement, which raises         *)
(* NameError before any store call; the rest of its body is never run.     *)
(***************************************************************************)
music_routes_globals ==
    {"router", "get_database", "UPLOAD_DIR", "COVER_DIR", "upload_music",
     "stream_music", "get_cover", "get_all_musics", "get_music", "delete_music"}

MaxFiles == 3          \* cap on the files of uploads/music

Durations == {-1, 0, 180}
AudioTypes == {"audio/mpeg", "text/plain"}
CoverTypes == {NoneValue, "image/png", "text/plain"}

\* "audio.content_type.startswith('audio/')", "cover.content_type
\* .startswith('image/')"
startswith(content_type, prefix) ==
    \/ prefix = "audio/" /\ content_type = "audio/mpeg"
    \/ prefix = "image/" /\ content_type = "image/png"

\* f"{ObjectId()}_{title}{file_extension}": a name no file and no track has.
unique_filename ==
    CHOOSE n \in 1 .. MaxFiles + NumTracks + 1 :
        /\ n \notin files \cup {musics[t].audioUrl[2] : t \in DOMAIN musics}
        /\ \A m \in 1 .. n - 1 :
              m \in files \cup {musics[t].audioUrl[2] : t \in DOMAIN musics}

\* music_routes.get_database(): "from server import db" at the call, 503
\* when it is None; no ping.
music_get_database_error == HTTPException(503, "Database not available")

\* POST /api/musics
upload_music_begin(p) ==
    /\ nextId.musics <= NumTracks
    /\ Cardinality(files) < MaxFiles
    /\ \E u \in Callers, d \in Durations, a \in AudioTypes, c \in CoverTypes :
          Begin(p, [op |-> "upload_music", user |-> u, target |-> 0,
                    arg |-> [duration |-> d, audio |-> a, cover |-> c]])
    /\ UNCHANGED <<mode, files, db_client, pinged, conn, users, musics,
                   playlists, nextId>>

\* cover_url when the request has no cover or the cover cannot be saved.
default_cover == "https://images.unsplash.com/photo"

\* The handler up to its first await, insert_one: the content-type check of
\* the audio; the audio file is written (open(file_path, "wb"),
\* shutil.copyfileobj), an exception becoming 500 "Failed to save audio
\* file" and one raised after open() leaving the file it created; the
\* content-type check of the cover (a cover that cannot be saved is replaced
\* by the default, as for a request without cover); music_dict;
\* db = get_database().
upload_music_save(p) ==
    /\ pc[p] = "upload_music"
    /\ IF ~startswith(call[p].arg.audio, "audio/")
       THEN /\ Finish(p, HTTPException(400, "File must be an audio file"))
            /\ UNCHANGED files
       ELSE \E outcome \in {"written", "open fails", "copy fails"} :
               /\ files' = IF outcome = "open fails" THEN files
                           ELSE files \cup {unique_filename}
               /\ IF outcome # "written"
                  THEN Finish(p, HTTPException(500, "Failed to save audio file"))
                  ELSE IF /\ call[p].arg.cover # NoneValue
                          /\ ~startswith(call[p].arg.cover, "image/")
                  THEN Finish(p, HTTPException(400, "Cover must be an image file"))
                  ELSE IF db = "none"
                  THEN Finish(p, music_get_database_error)
                  ELSE Goto(p, "upload_insert_one",
                            [db |-> db,
                             music_dict |->
                                [title |-> "song",
                                 duration |-> call[p].arg.duration,
                                 coverUrl |-> IF call[p].arg.cover = NoneValue
                                              THEN default_cover
                                              ELSE "/api/music/cover",
                                 audioUrl |-> <<"/api/music/stream",
                                                unique_filename>>,
                                 uploadedBy |-> call[p].user]])
    /\ UNCHANGED <<mode, db_client, pinged, conn, users, musics, playlists,
                   nextId, call, pre, first>>

\* result = await db.musics.insert_one(music_dict); MusicResponse, 201.
upload_music_insert_one(p) ==
    /\ pc[p] = "upload_insert_one"
    /\ IF store_error(loc[p].db) # ""
       THEN /\ Finish(p, global_exception_handler(store_error(loc[p].db)))
            /\ UNCHANGED <<musics, nextId>>
       ELSE LET id == nextId.musics
            IN  /\ musics' = (id :> loc[p].music_dict) @@ musics
                /\ nextId' = [nextId EXCEPT !.musics = id + 1]
                /\ Finish(p, Response(201, "", [id |-> id] @@ loc[p].music_dict))
    /\ UNCHANGED <<mode, files, db_client, pinged, conn, users, playlists,
                   call, pre, first>>

upload_music(p) ==
    \/ upload_music_begin(p)
    \/ upload_music_save(p)
    \/ upload_music_insert_one(p)

delete_music_begin(p) ==
    /\ \E u \in Callers, t \in TrackIds :
          Begin(p, [op |-> "delete_music", user |-> u, target |-> t, arg |-> ""])
    /\ UNCHANGED <<mode, files, db_client, pinged, conn, users, musics,
                   playlists, nextId>>

\* music = await db.musics.find_one({"_id": ObjectId(music_id)})
delete_music_find_one(p) ==
    /\ pc[p] = "delete_music_find_one"
    /\ IF "db" \notin music_routes_globals
       THEN Finish(p, global_exception_handler("NameError"))
       ELSE IF find_by_id(musics, call[p].target) = 0
       THEN Finish(p, TrackNotFound)
       ELSE IF musics[call[p].target].uploadedBy # call[p].user
       THEN Finish(p, Forbidden("Not authorized to delete this music"))
       ELSE Goto(p, "delete_music_delete_one", "")
    /\ UNCHANGED <<mode, files, db_client, pinged, conn, users, musics,
                   playlists, nextId, call, pre, first>>

delete_music(p) ==
    \/ delete_music_begin(p)
    \/ delete_music_find_one(p)

(***************************************************************************)
(* server.py: the connection manager.                                      *)
(*                                                                         *)
(* MONGO_URL is set (the deployment's configuration): the module-level     *)
(* block of server.py has constructed a client for it before any handler   *)
(* runs.  Motor connects lazily, so a candidate fails at its ping.         *)
(*                                                                         *)
(* Every client assigned to server.client has just been constructed, so    *)
(* while server.client is not None it refers to the last element of        *)
(* clients.  The collections are modelled once: which endpoint's copy a    *)
(* request reads or writes is not distinguished.                           *)
(***************************************************************************)
MaxClients == 5        \* cap on the clients ever constructed

\* connection_configs, by "type".
connection_configs == <<"Atlas", "Local">>
Endpoints == {"Atlas", "Local"}
db_name == "musicstream"

\* The environment: a MongoDB server stops or resumes answering.
server_fails(e) ==
    /\ e \in up
    /\ up' = up \ {e}
    /\ UNCHANGED <<mode, files, db_client, pinged,
                   client, db, indexes, clients, phase, users, musics,
                   playlists, nextId, pc, call, loc, result, pre, first>>

server_recovers(e) ==
    /\ e \notin up
    /\ up' = up \cup {e}
    /\ UNCHANGED <<mode, files, db_client, pinged,
                   client, db, indexes, clients, phase, users, musics,
                   playlists, nextId, pc, call, loc, result, pre, first>>

\* The steps of database_utils.init_collections that create an index, in
\* order.
init_collections_steps ==
    <<"users.email.unique", "musics.text", "musics.uploadedBy",
      "musics.createdAt", "playlists.userId", "playlists.createdAt">>

\* "db = client[db_name]", after the client has answered the ping.
db_assign ==
    /\ db' = client
    /\ db_client' = Len(clients)
    /\ pinged' = pinged \cup {Len(clients)}

\* "db = None", in the except branch.
db_reset ==
    /\ db' = "none"
    /\ db_client' = 0
    /\ UNCHANGED pinged

\* init_database, from its first line to the ping of candidate i: the new
\* client is bound to server.client before it is pinged (line 75).  cs is
\* the clients so far, l the locals of init_database.
init_database_try(p, i, cs, l) ==
    /\ clients' = Append(cs, AsyncIOMotorClient(connection_configs[i]))
    /\ client' = connection_configs[i]
    /\ Goto(p, "init_ping", [l EXCEPT !.i = i])

\* init_database returns success to its caller, which runs on to its next
\* await: startup_event only logs; test_database_connection answers
\* "failed" or goes on to its own ping.
init_database_return(p, success, l) ==
    IF call[p].op = "startup_event"
    THEN /\ Finish(p, Response(0, "startup complete",
                               [success |-> success, log |-> l.log,
                                collections |-> l.collections]))
         /\ phase' = "serving"
    ELSE /\ IF success
            THEN Goto(p, "db_test_ping", "")
            ELSE Finish(p, Response(200, "", [status |-> "failed"]))
         /\ UNCHANGED phase

\* startup_event: the application calls it once, before it serves requests.
startup_event_begin(p) ==
    /\ Begin(p, [op |-> "startup_event", user |-> 0, target |-> 0, arg |-> ""])
    /\ UNCHANGED <<mode, files, db_client, pinged, conn, users, musics,
                   playlists, nextId>>

\* success = await init_database(), up to the ping of the first candidate.
startup_event_init_database(p) ==
    /\ pc[p] = "startup_event"
    /\ init_database_try(p, 1, clients,
                         [i |-> 1, log |-> <<>>, collections |-> "not run"])
    /\ UNCHANGED <<mode, files, db_client, pinged,
                   db, up, indexes, phase, users, musics, playlists,
                   nextId, call, pre, first>>

\* Faulty variant: a candidate that fails ends the acquisition.
init_database_ping_no_fallback(p) ==
    /\ pc[p] = "init_ping"
    /\ \E ok \in answers(client) :
          IF ok
          THEN /\ db_assign
               /\ Goto(p, "init_collections", loc[p])
               /\ UNCHANGED <<client, clients, phase>>
          ELSE /\ client' = "none"
               /\ db_reset
               /\ clients' = close(clients)
               /\ init_database_return(p, FALSE,
                                       [loc[p] EXCEPT !.log = Append(@, client)])
    /\ UNCHANGED <<mode, files, up, indexes, users, musics, playlists, nextId, call,
                   pre, first>>

\* Faulty variant: the failure of the last candidate leaves the references
\* to its closed client in place.
init_database_ping_keeps_handle(p) ==
    /\ pc[p] = "init_ping"
    /\ \E ok \in answers(client) :
          IF ok
          THEN /\ db_assign
               /\ Goto(p, "init_collections", loc[p])
               /\ UNCHANGED <<client, clients, phase>>
          ELSE LET l == [loc[p] EXCEPT !.log = Append(@, client)]
               IN  IF loc[p].i < Len(connection_configs)
                   THEN /\ db_reset
                        /\ init_database_try(p, loc[p].i + 1, close(clients), l)
                        /\ UNCHANGED phase
                   ELSE /\ db' = client /\ db_client' = Len(clients) /\ UNCHANGED pinged
                        /\ clients' = close(clients)
                        /\ init_database_return(p, FALSE, l)
                        /\ UNCHANGED client
    /\ UNCHANGED <<mode, files, up, indexes, users, musics, playlists, nextId, call,
                   pre, first>>

\* await client.admin.command('ping') of candidate loc.i, then either
\* db = client[db_name], or the except branch (close, client = None,
\* db = None) and the next candidate, or "return False" after the last one.
init_database_ping(p) ==
    /\ pc[p] = "init_ping"
    /\ \E ok \in answers(client) :
          IF ok
          THEN /\ db_assign
               /\ Goto(p, "init_collections", loc[p])
               /\ UNCHANGED <<client, clients, phase>>
          ELSE LET l == [loc[p] EXCEPT !.log = Append(@, client)]
               IN  IF loc[p].i < Len(connection_configs)
                   THEN /\ db_reset
                        /\ init_database_try(p, loc[p].i + 1, close(clients), l)
                        /\ UNCHANGED phase
                   ELSE /\ client' = "none"
                        /\ db_reset
                        /\ clients' = close(clients)
                        /\ init_database_return(p, FALSE, l)
    /\ UNCHANGED <<mode, files, up, indexes, users, musics, playlists, nextId, call,
                   pre, first>>

\* Faulty variant: a failure of init_collections fails the acquisition (the
\* exception reaches init_database's except branch).
init_database_init_collections_propagates(p) ==
    /\ pc[p] = "init_collections"
    /\ \E k \in 0 .. Len(init_collections_steps) :
          /\ FALSE \in answers(db) => k = 0
          /\ indexes' = indexes \cup {init_collections_steps[j] : j \in 1 .. k}
          /\ IF k = Len(init_collections_steps)
             THEN /\ init_database_return(p, TRUE,
                                          [loc[p] EXCEPT !.collections = "True"])
                  /\ UNCHANGED <<client, db, db_client, pinged, clients>>
             ELSE /\ client' = "none"
                  /\ db_reset
                  /\ clients' = close(clients)
                  /\ init_database_return(p, FALSE,
                                          [loc[p] EXCEPT !.collections = "False"])
    /\ UNCHANGED <<mode, files, up, users, musics, playlists, nextId, call,
                   pre, first>>

\* await init_collections(db), then "return True".  init_collections
\* catches every exception: it creates the indexes up to its first failing
\* step (k of them) and returns False, which init_database ignores.
init_database_init_collections(p) ==
    /\ pc[p] = "init_collections"
    /\ \E k \in 0 .. Len(init_collections_steps) :
          /\ FALSE \in answers(db) => k = 0
          /\ indexes' = indexes \cup {init_collections_steps[j] : j \in 1 .. k}
          /\ init_database_return(p, TRUE,
                [loc[p] EXCEPT !.collections =
                    IF k = Len(init_collections_steps) THEN "True" ELSE "False"])
    /\ UNCHANGED <<mode, files, db_client, pinged, client, db, up, clients,
                   users, musics, playlists, nextId, call, pre, first>>

init_database(p) ==
    \/ init_database_ping(p)
    \/ init_database_init_collections(p)

startup_event(p) ==
    \/ startup_event_begin(p)
    \/ startup_event_init_database(p)

\* shutdown_event: "if client: client.close()", once no request is in
\* flight.  The references server.client and server.db stay as they are.
shutdown_event ==
    /\ phase = "serving"
    /\ \A p \in Procs : Idle(p)
    /\ phase' = "stopped"
    /\ clients' = IF client # "none" THEN close(clients) ELSE clients
    /\ UNCHANGED <<mode, files, db_client, pinged,
                   client, db, up, indexes, users, musics, playlists,
                   nextId, pc, call, loc, result, pre, first>>

(***************************************************************************)
(* server.py and database_utils.py: the health endpoints.                  *)
(***************************************************************************)
\* database_utils.check_database_health(db): the per-collection counts, or
\* the error variant when a count_documents raises.
check_database_health(ok) ==
    IF ok
    THEN [status |-> "healthy",
          collections |-> [users |-> Cardinality(DOMAIN users),
                           musics |-> Cardinality(DOMAIN musics),
                           playlists |-> Cardinality(DOMAIN playlists)],
          total_documents |-> Cardinality(DOMAIN users)
                              + Cardinality(DOMAIN musics)
                              + Cardinality(DOMAIN playlists)]
    ELSE [status |-> "error", error |-> "ServerSelectionTimeoutError"]

HealthRequest(op) == [op |-> op, user |-> 0, target |-> 0, arg |-> ""]

\* A handler other than startup_event is called once startup is over.
render_root_begin(p) ==
    /\ Begin(p, HealthRequest("render_root"))
    /\ UNCHANGED <<mode, files, db_client, pinged, conn, users, musics,
                   playlists, nextId>>

\* The body of GET /: db_info is spread into "database".
render_root_response(db_status) ==
    Response(200, "",
             [status |-> "online",
              database |-> IF db_status = "connected"
                           THEN [status |-> db_status, name |-> db_name]
                           ELSE [status |-> db_status]])

\* Faulty variant: the outcome of the ping is not looked at.
render_root_ping_unprobed(p) ==
    /\ pc[p] = "render_root"
    /\ \E b \in client_and_db :
          IF b = "NotImplementedError"
          THEN Finish(p, Response(200, "", [status |-> "online", error |-> b]))
          ELSE IF b = "False"
          THEN Finish(p, render_root_response("disconnected"))
          ELSE Finish(p, render_root_response("connected"))
    /\ UNCHANGED <<mode, files, db_client, pinged, conn, users, musics,
                   playlists, nextId, call, pre, first>>

\* "if client and db: await asyncio.wait_for(ping, timeout=2.0)": connected
\* when the ping is answered, "timeout" or "error: ..." when it is not; an
\* exception outside the inner try is answered by the outer except.
render_root_ping(p) ==
    /\ pc[p] = "render_root"
    /\ \E b \in client_and_db :
          IF b = "NotImplementedError"
          THEN Finish(p, Response(200, "", [status |-> "online", error |-> b]))
          ELSE IF b = "False"
          THEN Finish(p, render_root_response("disconnected"))
          ELSE \E ok \in answers(client) :
                  IF ok
                  THEN Finish(p, render_root_response("connected"))
                  ELSE \E s \in {"timeout", "error"} :
                          Finish(p, render_root_response(s))
    /\ UNCHANGED <<mode, files, db_client, pinged, conn, users, musics,
                   playlists, nextId, call, pre, first>>

render_root(p) ==
    \/ render_root_begin(p)
    \/ render_root_ping(p)

health_check_begin(p) ==
    /\ Begin(p, HealthRequest("health_check"))
    /\ UNCHANGED <<mode, files, db_client, pinged, conn, users, musics,
                   playlists, nextId>>

health_check_response(database) ==
    Response(200, "", [api |-> "healthy", database |-> database])

\* "if not client or not db" is outside the try: what it raises reaches
\* global_exception_handler.
health_check_probe(p) ==
    /\ pc[p] = "health_check"
    /\ \E b \in client_and_db :
          IF b = "NotImplementedError"
          THEN Finish(p, global_exception_handler(b))
          ELSE IF b = "False"
          THEN Finish(p, health_check_response(
                            [status |-> "disconnected",
                             message |-> "Database client not initialized"]))
          ELSE \E ok \in answers(db) :
                  Finish(p, health_check_response(check_database_health(ok)))
    /\ UNCHANGED <<mode, files, db_client, pinged, conn, users, musics,
                   playlists, nextId, call, pre, first>>

health_check(p) ==
    \/ health_check_begin(p)
    \/ health_check_probe(p)

\* GET /api/db-test.  A call that finds no handle runs init_database, which
\* constructs up to one client per candidate.
test_database_connection_begin(p) ==
    /\ client = "none" => Len(clients) + Len(connection_configs) <= MaxClients
    /\ Begin(p, HealthRequest("test_database_connection"))
    /\ UNCHANGED <<mode, files, db_client, pinged, conn, users, musics,
                   playlists, nextId>>

\* "if not client or not db: success = await init_database()"
test_database_connection_enter(p) ==
    /\ pc[p] = "db_test"
    /\ \E b \in client_and_db :
          IF b = "NotImplementedError"
          THEN /\ Finish(p, global_exception_handler(b))
               /\ UNCHANGED <<client, clients>>
          ELSE IF b = "False"
          THEN init_database_try(p, 1, clients,
                                 [i |-> 1, log |-> <<>>, collections |-> "not run"])
          ELSE /\ Goto(p, "db_test_ping", "")
               /\ UNCHANGED <<client, clients>>
    /\ UNCHANGED <<mode, files, db_client, pinged,
                   db, up, indexes, phase, users, musics, playlists,
                   nextId, call, pre, first>>

\* await client.admin.command('ping'), inside the try.
test_database_connection_ping(p) ==
    /\ pc[p] = "db_test_ping"
    /\ \E ok \in answers(client) :
          IF ok
          THEN Goto(p, "db_test_health", "")
          ELSE Finish(p, Response(200, "", [status |-> "error"]))
    /\ UNCHANGED <<mode, files, db_client, pinged, conn, users, musics,
                   playlists, nextId, call, pre, first>>

\* db_health = await check_database_health(db)
test_database_connection_health(p) ==
    /\ pc[p] = "db_test_health"
    /\ \E ok \in answers(db) :
          Finish(p, Response(200, "", [status |-> "success",
                                       health |-> check_database_health(ok)]))
    /\ UNCHANGED <<mode, files, db_client, pinged, conn, users, musics,
                   playlists, nextId, call, pre, first>>

test_database_connection(p) ==
    \/ test_database_connection_begin(p)
    \/ test_database_connection_enter(p)
    \/ test_database_connection_ping(p)
    \/ test_database_connection_health(p)

(***************************************************************************)
(* Specifications.  Every one starts after module import and a successful  *)
(* startup_event: init_database connected to the first candidate and ran   *)
(* init_collections.                                                       *)
(***************************************************************************)
InitConn ==
    /\ client = "Atlas"
    /\ db = "Atlas"
    /\ up = {"Atlas"}
    /\ indexes = init_collections
    /\ clients = <<AsyncIOMotorClient("Atlas"), AsyncIOMotorClient("Atlas")>>
    /\ db_client = 2
    /\ pinged = {2}
    /\ phase = "serving"

InitSlots ==
    /\ pc = [p \in Procs |-> "idle"]
    /\ call = [p \in Procs |-> NoCall]
    /\ loc = [p \in Procs |-> ""]
    /\ result = [p \in Procs |-> NoResult]
    /\ pre = [p \in Procs |-> ""]
    /\ first = [p \in Procs |-> NoFirst]

EmptyStore ==
    /\ users = <<>>
    /\ musics = <<>>
    /\ playlists = <<>>
    /\ nextId = [users |-> 1, musics |-> 1, playlists |-> 1]
    /\ files = {}

\* Registration, requests interleaving.
InitAuth == mode = "concurrent" /\ InitConn /\ InitSlots /\ EmptyStore
NextAuth == \E p \in Procs : register(p) \/ Return(p)
SpecAuth == InitAuth /\ [][NextAuth]_vars

\* Registration, one request at a time.
InitAuthSerial == mode = "serial" /\ InitConn /\ InitSlots /\ EmptyStore
NextAuthSerial == NextAuth \/ \E p \in Procs : Repeat(p)
SpecAuthSerial == InitAuthSerial /\ [][NextAuthSerial]_vars

(***************************************************************************)
(* A populated store: two registered accounts (register, twice) and some   *)
(* uploaded tracks (upload_music).                                         *)
(***************************************************************************)
SeedUser(i) ==
    [name |-> IF i = 1 THEN "Ann" ELSE "Bob",
     email |-> IF i = 1 THEN "a@x.io" ELSE "b@x.io",
     password |-> hash_password("pw1"),
     favoriteIds |-> <<>>]

SeedTrack(t) ==
    [title |-> "song", duration |-> 180, coverUrl |-> default_cover,
     audioUrl |-> <<"/api/music/stream", t>>,
     uploadedBy |-> IF t = 1 THEN 1 ELSE 2]

\* "filename = music['audioUrl'].split('/')[-1]"
filename(music) == music.audioUrl[2]

SeededStore ==
    /\ users = [i \in {1, 2} |-> SeedUser(i)]
    /\ \E S \in SUBSET TrackIds : musics = [t \in S |-> SeedTrack(t)]
    /\ playlists = <<>>
    /\ nextId = [users |-> 3, musics |-> NumTracks + 1, playlists |-> 1]
    /\ files = {filename(musics[t]) : t \in DOMAIN musics}

\* Favorites, requests interleaving.
InitFav == mode = "concurrent" /\ InitConn /\ InitSlots /\ SeededStore
NextFav == \E p \in Procs : toggle_favorite(p) \/ Return(p)
SpecFav == InitFav /\ [][NextFav]_vars

\* Favorites, one request at a time.
InitFavSerial == mode = "serial" /\ InitConn /\ InitSlots /\ SeededStore
NextFavSerial == NextFav \/ \E p \in Procs : Repeat(p)
SpecFavSerial == InitFavSerial /\ [][NextFavSerial]_vars

NextPlaylist ==
    \E p \in Procs :
        \/ create_playlist(p) \/ create_playlist_insert_one(p)
        \/ update_playlist(p)
        \/ delete_playlist(p)
        \/ add_music_to_playlist(p)
        \/ remove_music_from_playlist(p)
        \/ delete_music(p)
        \/ Return(p)

(***************************************************************************)
(* The connection manager, the health endpoints and the handlers that      *)
(* reach the store through each kind of handle (register: get_database;    *)
(* toggle_favorite: the handle bound at import; delete_music), from module *)
(* import on, one request at a time, while the servers come and go.  The   *)
(* database holds one account and one track and has no index yet.          *)
(***************************************************************************)
ConnStore ==
    /\ users = [i \in {1} |-> SeedUser(i)]
    /\ musics = [t \in {1} |-> SeedTrack(t)]
    /\ playlists = <<>>
    /\ nextId = [users |-> 2, musics |-> NumTracks + 1, playlists |-> 1]
    /\ files = {filename(musics[t]) : t \in DOMAIN musics}

InitConnImport ==
    /\ mode = "serial"
    /\ client = "Atlas"
    /\ db = "Atlas"
    /\ clients = <<AsyncIOMotorClient("Atlas")>>
    /\ db_client = 1
    /\ pinged = {}
    /\ phase = "starting"
    /\ up \in SUBSET Endpoints
    /\ indexes = {}
    /\ InitSlots
    /\ ConnStore

NextConn ==
    \/ \E p \in Procs :
          \/ startup_event(p)
          \/ init_database(p)
          \/ render_root(p)
          \/ health_check(p)
          \/ test_database_connection(p)
          \/ register(p)
          \/ toggle_favorite(p)
          \/ delete_music(p)
          \/ Return(p)
    \/ shutdown_event
    \/ \E e \in Endpoints : server_fails(e) \/ server_recovers(e)

SpecConn == InitConnImport /\ [][NextConn]_vars

\* Tracks and favorites, one request at a time: two accounts, no track yet.
MusicStore ==
    /\ users = [i \in {1, 2} |-> SeedUser(i)]
    /\ musics = <<>>
    /\ playlists = <<>>
    /\ nextId = [users |-> 3, musics |-> 1, playlists |-> 1]
    /\ files = {}

InitMusic == mode = "serial" /\ InitConn /\ InitSlots /\ MusicStore
NextMusic ==
    \E p \in Procs :
        \/ upload_music(p)
        \/ delete_music(p)
        \/ toggle_favorite(p)
        \/ get_favorites(p)
        \/ Return(p)
SpecMusic == InitMusic /\ [][NextMusic]_vars

\* Reading playlists, one request at a time.
InitPlaylistRead == mode = "serial" /\ InitConn /\ InitSlots /\ SeededStore
NextPlaylistRead ==
    \E p \in Procs :
        \/ create_playlist(p) \/ create_playlist_insert_one(p)
        \/ add_music_to_playlist(p)
        \/ get_user_playlists(p)
        \/ get_playlist(p)
        \/ Return(p)
SpecPlaylistRead == InitPlaylistRead /\ [][NextPlaylistRead]_vars

\* The owner's requests on one playlist, interleaving: one account, every
\* track uploaded, and one playlist that the account has created.
RaceStore ==
    /\ users = [i \in {1} |-> SeedUser(i)]
    /\ musics = [t \in TrackIds |-> SeedTrack(t)]
    /\ playlists = [id \in {1} |->
                       [name |-> "mix", description |-> "", userId |-> 1,
                        musicIds |-> <<>>, createdAt |-> 1]]
    /\ nextId = [users |-> 2, musics |-> NumTracks + 1, playlists |-> 2]
    /\ files = {filename(musics[t]) : t \in DOMAIN musics}

InitPlaylistRace == mode = "concurrent" /\ InitConn /\ InitSlots /\ RaceStore
NextPlaylistRace ==
    \E p \in Procs :
        \/ update_playlist(p)
        \/ delete_playlist(p)
        \/ add_music_to_playlist(p)
        \/ remove_music_from_playlist(p)
        \/ Return(p)
SpecPlaylistRace == InitPlaylistRace /\ [][NextPlaylistRace]_vars

\* Playlists and track deletion, one request at a time.
InitPlaylistSerial == mode = "serial" /\ InitConn /\ InitSlots /\ SeededStore
NextPlaylistSerial == NextPlaylist \/ \E p \in Procs : Repeat(p)
SpecPlaylistSerial == InitPlaylistSerial /\ [][NextPlaylistSerial]_vars

(***************************************************************************)
(* Claims about registration.                                              *)
(***************************************************************************)
WithEmail(us, e) == {i \in DOMAIN us : us[i].email = e}

\* C1: a register call that starts after a registration with the same email
\* has completed fails with DuplicateEmail; the account store then holds
\* exactly one document with that email and no document has changed (the
\* first registration's name, password hash and favorites are kept).
C1_SecondRegisterFails ==
    \A p \in Procs :
        (/\ mode = "serial"
         /\ Done(p)
         /\ call[p].op = "register"
         /\ WithEmail(pre[p].users, call[p].arg.email) # {})
        => /\ Is(result[p], DuplicateEmail)
           /\ users = pre[p].users
           /\ Cardinality(WithEmail(users, call[p].arg.email)) = 1

\* A second registration of a taken email, with another name and password,
\* has been answered.
C1_Witness ==
    \E p \in Procs :
        /\ mode = "serial"
        /\ Done(p)
        /\ call[p].op = "register"
        /\ \E i \in WithEmail(pre[p].users, call[p].arg.email) :
              /\ pre[p].users[i].name # call[p].arg.name
              /\ pre[p].users[i].password # hash_password(call[p].arg.password)
        /\ result[p].status = 400

C3_LosingInsertIsDuplicateEmail ==
    \A p \in Procs :
        (Done(p) /\ call[p].op = "register" /\ result[p].status # 201)
        => Is(result[p], DuplicateEmail)

(***************************************************************************)
(* Claims about the favorite toggle.                                       *)
(***************************************************************************)
IsToggle(c, u, t) == c.op = "toggle_favorite" /\ c.user = u /\ c.target = t

\* C4: for an existing account A and an existing track T, two consecutive
\* toggle_favorite(A, T) calls report opposite results (added then removed,
\* or removed then added) and leave A's stored favorite set as it was
\* before the first call.
C4_ToggleTwiceRestores ==
    \A p \in Procs : \A u \in DOMAIN users : \A t \in DOMAIN musics :
        (/\ mode = "serial"
         /\ Done(p)
         /\ IsToggle(call[p], u, t)
         /\ first[p].called)
        => /\ \/ Is(first[p].result, Added) /\ Is(result[p], Removed)
              \/ Is(first[p].result, Removed) /\ Is(result[p], Added)
           /\ Elems(users[u].favoriteIds) = Elems(first[p].pre.users[u].favoriteIds)

\* The second of two consecutive toggles has been answered "added", the
\* first "removed", while the account holds another favorite.
C4_Witness ==
    \E p \in Procs : \E u \in DOMAIN users : \E t \in DOMAIN musics :
        /\ mode = "serial"
        /\ Done(p)
        /\ IsToggle(call[p], u, t)
        /\ first[p].called
        /\ Is(first[p].result, Removed)
        /\ Is(result[p], Added)
        /\ Len(users[u].favoriteIds) = 2

\* C5: toggle_favorite(A, T) for a track id T that resolves to no stored
\* track fails with TrackNotFound and leaves every document unchanged; the
\* call gets to read or update the account only when the track exists.
C5_ToggleMissingTrack ==
    \A p \in Procs :
        (mode = "serial" /\ call[p].op = "toggle_favorite")
        => /\ (Done(p) /\ call[p].target \notin DOMAIN pre[p].musics)
              => (Is(result[p], TrackNotFound) /\ store = pre[p])
           /\ pc[p] \in {"toggle_find_user", "toggle_update"}
              => call[p].target \in DOMAIN pre[p].musics

\* A toggle of a missing track by an account that has a favorite has been
\* answered.
C5_Witness ==
    \E p \in Procs :
        /\ mode = "serial"
        /\ Done(p)
        /\ call[p].op = "toggle_favorite"
        /\ call[p].target \notin DOMAIN musics
        /\ users[call[p].user].favoriteIds # <<>>
        /\ result[p].status = 404

\* C6: concurrent toggle_favorite calls by one account on one track do not
\* race: the outcome is that of some serial order of the calls, so that, as
\* after every serial order, the track id never appears more than once in
\* the account's favoriteIds.
C6_ConcurrentTogglesSerialize ==
    \A u \in DOMAIN users : \A t \in TrackIds :
        Occurrences(users[u].favoriteIds, t) <= 1

(***************************************************************************)
(* Claims about playlists and ownership-checked mutations.                 *)
(***************************************************************************)
PlaylistMutations ==
    {"update_playlist", "delete_playlist", "add_music_to_playlist",
     "remove_music_from_playlist"}

\* The request of slot p, answered, was issued on a playlist that existed
\* when the request started.
AnsweredOnPlaylist(p, ops) ==
    /\ mode = "serial"
    /\ Done(p)
    /\ call[p].op \in ops
    /\ call[p].target \in DOMAIN pre[p].playlists

ByOwner(p) == pre[p].playlists[call[p].target].userId = call[p].user

Succeeded(p) ==
    result[p].status = IF call[p].op = "delete_playlist" THEN 204 ELSE 200

ChecksPrecedeMutation(p, coll, owner, find) ==
    LET docs == pre[p][coll]
        id == call[p].target
    IN  /\ pc[p] = find => store = pre[p]
        /\ (Done(p) /\ id \notin DOMAIN docs)
           => (result[p].status = 404 /\ store = pre[p])
        /\ (Done(p) /\ id \in DOMAIN docs /\ docs[id][owner] # call[p].user)
           => (result[p].status = 403 /\ store = pre[p])
        /\ (Done(p) /\ store # pre[p])
           => (id \in DOMAIN docs /\ docs[id][owner] = call[p].user)

\* C8: update_playlist, delete_playlist and delete_music check existence,
\* then ownership, then mutate.
C8_ChecksPrecedeMutation ==
    \A p \in Procs :
        mode = "serial" =>
            /\ call[p].op = "update_playlist"
               => ChecksPrecedeMutation(p, "playlists", "userId", "update_find_one")
            /\ call[p].op = "delete_playlist"
               => ChecksPrecedeMutation(p, "playlists", "userId", "delete_find_one")
            /\ call[p].op = "delete_music"
               => ChecksPrecedeMutation(p, "musics", "uploadedBy", "delete_music_find_one")

\* C9: add_music_to_playlist is idempotent: when the owner adds a track id
\* that is already in the playlist's musicIds, the call succeeds, no document
\* changes (the sequence keeps its length and order) and the id is in the
\* returned sequence once.
C9_AddIdempotent ==
    \A p \in Procs :
        (/\ AnsweredOnPlaylist(p, {"add_music_to_playlist"})
         /\ ByOwner(p)
         /\ call[p].arg \in Elems(pre[p].playlists[call[p].target].musicIds))
        => /\ result[p].status = 200
           /\ store = pre[p]
           /\ result[p].body.musicIds = pre[p].playlists[call[p].target].musicIds
           /\ Occurrences(result[p].body.musicIds, call[p].arg) = 1

\* The owner has re-added a track to a playlist that holds two tracks.
C9_Witness ==
    \E p \in Procs :
        /\ AnsweredOnPlaylist(p, {"add_music_to_playlist"})
        /\ ByOwner(p)
        /\ call[p].arg \in Elems(pre[p].playlists[call[p].target].musicIds)
        /\ Len(pre[p].playlists[call[p].target].musicIds) = 2
        /\ result[p].status = 200

\* C10: remove_music_from_playlist is idempotent: when the owner removes a
\* track id that is not in the playlist's musicIds the call succeeds and no
\* document changes; and the second of two consecutive removals of one id
\* succeeds and returns the playlist the first one returned.
C10_RemoveIdempotent ==
    \A p \in Procs :
        (AnsweredOnPlaylist(p, {"remove_music_from_playlist"}) /\ ByOwner(p))
        => /\ call[p].arg \notin Elems(pre[p].playlists[call[p].target].musicIds)
              => (result[p].status = 200 /\ store = pre[p])
           /\ (first[p].called /\ first[p].result.status = 200)
              => /\ result[p].status = 200
                 /\ result[p].body = first[p].result.body
                 /\ store = pre[p]

\* The owner has removed, twice in a row, a track that was in the playlist
\* with another one.
C10_Witness ==
    \E p \in Procs :
        /\ AnsweredOnPlaylist(p, {"remove_music_from_playlist"})
        /\ ByOwner(p)
        /\ first[p].called
        /\ call[p].arg \in Elems(first[p].pre.playlists[call[p].target].musicIds)
        /\ Len(first[p].pre.playlists[call[p].target].musicIds) = 2
        /\ result[p].status = 200

\* C11: add_music_to_playlist verifies that the track exists before adding:
\* when the owner of a playlist names a track id that resolves to no stored
\* track, the call fails with TrackNotFound and no document changes (the
\* playlist's musicIds in particular).
C11_AddVerifiesTrack ==
    \A p \in Procs :
        (/\ AnsweredOnPlaylist(p, {"add_music_to_playlist"})
         /\ ByOwner(p)
         /\ call[p].arg \notin DOMAIN pre[p].musics)
        => /\ Is(result[p], TrackNotFound)
           /\ store = pre[p]
           /\ playlists[call[p].target].musicIds
                 = pre[p].playlists[call[p].target].musicIds

\* The owner has been refused the addition of a missing track to a playlist
\* that already holds a track.
C11_Witness ==
    \E p \in Procs :
        /\ AnsweredOnPlaylist(p, {"add_music_to_playlist"})
        /\ ByOwner(p)
        /\ call[p].arg \notin DOMAIN pre[p].musics
        /\ Len(pre[p].playlists[call[p].target].musicIds) = 1
        /\ Is(result[p], TrackNotFound)

(***************************************************************************)
(* Claims about the connection manager.                                    *)
(***************************************************************************)
StartupDone(p) == Done(p) /\ call[p].op = "startup_event"

\* The position of candidate c in connection_configs.
Position(c) == CHOOSE i \in DOMAIN connection_configs : connection_configs[i] = c

\* C12: init_database tries its candidates in the fixed order Atlas, Local.
\* While it runs, the candidates that failed so far are exactly those before
\* the one being tried; the first candidate that answers its ping becomes
\* the active handle (client and db) and no later candidate is constructed;
\* the call fails only when every candidate was tried and failed; and the
\* failures are only logged: startup_event completes whatever they were.
C12_FirstReachableCandidateWins ==
    \A p \in Procs :
        /\ pc[p] \in {"init_ping", "init_collections"}
           => /\ client = connection_configs[loc[p].i]
              /\ clients[Len(clients)] = AsyncIOMotorClient(client)
              /\ loc[p].log = SubSeq(connection_configs, 1, loc[p].i - 1)
        /\ pc[p] = "init_collections" => db = client
        /\ StartupDone(p)
           => /\ result[p].detail = "startup complete"
              /\ IF result[p].body.success
                 THEN /\ client # "none"
                      /\ db = client
                      /\ result[p].body.log
                           = SubSeq(connection_configs, 1, Position(client) - 1)
                      /\ Len(clients) = 1 + Position(client)
                 ELSE result[p].body.log = connection_configs

\* startup_event has completed with the candidates [bad, good]: Atlas
\* failed, Local answered and is the active handle.
C12_Witness ==
    \E p \in Procs :
        /\ StartupDone(p)
        /\ result[p].body.success
        /\ result[p].body.log = <<"Atlas">>
        /\ client = "Local"
        /\ db = "Local"

\* C13: when every candidate fails, init_database returns False and raises
\* nothing: startup_event completes, server.client and server.db are None,
\* the process serves requests, and GET / and GET /api/health answer 200
\* with the database reported disconnected; a db-test that could not
\* re-acquire answers "failed" with both references None.
C13_AllCandidatesFail ==
    \A p \in Procs :
        /\ (StartupDone(p) /\ ~result[p].body.success)
           => /\ result[p].detail = "startup complete"
              /\ client = "none"
              /\ db = "none"
              /\ phase = "serving"
        /\ (Done(p) /\ call[p].op \in {"render_root", "health_check"}
                    /\ client = "none")
           => /\ result[p].status = 200
              /\ result[p].body.database.status = "disconnected"
        /\ (Done(p) /\ call[p].op = "test_database_connection"
                    /\ result[p].status = 200
                    /\ result[p].body.status = "failed")
           => (client = "none" /\ db = "none")

\* After a startup in which every candidate failed, GET /api/health has
\* answered in degraded mode.
C13_Witness ==
    \E p \in Procs :
        /\ Done(p)
        /\ call[p].op = "health_check"
        /\ client = "none"
        /\ db = "none"
        /\ Len(clients) = 1 + Len(connection_configs)
        /\ result[p].status = 200
        /\ result[p].body.database.status = "disconnected"

\* No slot is inside init_database.
InitDatabaseReturned ==
    /\ phase # "starting"
    /\ \A p \in Procs : pc[p] \notin {"init_ping", "init_collections"}

\* C14: no connection is leaked by acquisition: once init_database has
\* returned, every client ever constructed that is not the active handle
\* has been closed.
C14_NoClientLeaked ==
    InitDatabaseReturned
    => \A i \in DOMAIN clients :
          clients[i].open => (client # "none" /\ i = Len(clients))

HealthSnapshots == {"render_root", "health_check"}

\* Slot p's request is answered in this step.
Answers(p) == pc[p] # "done" /\ pc'[p] = "done"

\* The active handle is stale: a client is held and its server does not
\* answer.
Stale == client # "none" /\ db # "none" /\ client \notin up

\* The database status of a health snapshot; the body the outer except of
\* render_root returns has an "error" and no "database".
SnapshotStatus(r) ==
    IF "database" \in DOMAIN r.body THEN r.body.database.status ELSE "error"

\* C15: a health snapshot (GET /, GET /api/health) taken while the active
\* handle is stale raises nothing to the caller (it is answered 200) and
\* reports the error, timeout or disconnected variant, never connected or
\* healthy.
C15_StaleSnapshotNeverHealthy ==
    [][\A p \in Procs :
          (Answers(p) /\ call[p].op \in HealthSnapshots /\ Stale)
          => /\ result'[p].status = 200
             /\ SnapshotStatus(result'[p]) \in {"error", "timeout", "disconnected"}]_vars

\* The variant of the specification a status string of the code stands for:
\* check_database_health calls the connected variant "healthy".
Variant(status) == IF status = "healthy" THEN "connected" ELSE status

\* C16: every health snapshot carries one of the four variants connected,
\* timeout, disconnected, error; and the connected variant carries the
\* per-collection document counts and the server version.
C16_SnapshotVariants ==
    \A p \in Procs :
        (Done(p) /\ call[p].op \in HealthSnapshots /\ result[p].status = 200
                 /\ "database" \in DOMAIN result[p].body)
        => LET database == result[p].body.database
           IN  /\ Variant(database.status)
                     \in {"connected", "timeout", "disconnected", "error"}
               /\ Variant(database.status) = "connected"
                  => {"collections", "version"} \subseteq DOMAIN database

\* C17: after shutdown_event has closed the client, a request that reaches
\* the store (register, toggle_favorite) is refused with a storage
\* unavailable error.
C17_NoOperationAfterRelease ==
    (phase = "stopped" /\ closed)
    => \A p \in Procs :
          (Done(p) /\ call[p].op \in {"register", "toggle_favorite"})
          => result[p].status = 503

\* C18: re-acquisition is pull-based and always possible: a db-test that
\* finds no handle, or finds that the handle it holds does not answer, goes
\* on to init_database.
C18_DbTestReacquires ==
    [][\A p \in Procs :
          (/\ \/ pc[p] = "db_test" /\ client = "none"
              \/ pc[p] = "db_test_ping" /\ client \notin up
           /\ pc'[p] # pc[p])
          => pc'[p] = "init_ping"]_vars

\* C19: a failure of init_collections fails neither acquisition nor
\* startup: when a step of init_collections failed, startup_event completes,
\* init_database has returned success and the pinged handle is active.
C19_InitCollectionsFailureIsNotFatal ==
    \A p \in Procs :
        (StartupDone(p) /\ result[p].body.collections = "False")
        => /\ result[p].detail = "startup complete"
           /\ result[p].body.success
           /\ client # "none"
           /\ db = client
           /\ clients[Len(clients)].open
           /\ phase = "serving"

\* Startup has completed after init_collections created the unique index
\* on users.email and failed at a later step.
C19_Witness ==
    \E p \in Procs :
        /\ StartupDone(p)
        /\ result[p].body.collections = "False"
        /\ result[p].body.success
        /\ indexes = {"users.email.unique"}
        /\ db = client
        /\ client # "none"

\* Degraded mode: no active handle, or the handle's server does not answer.
Degraded == client = "none" \/ db = "none" \/ client \notin up

\* C20: in degraded mode a store-backed operation (register,
\* toggle_favorite, delete_music) is answered with the storage-unavailable
\* error 503 and writes nothing.
C20_DegradedModeRefuses ==
    [][\A p \in Procs :
          (Answers(p) /\ Degraded
           /\ call[p].op \in {"register", "toggle_favorite", "delete_music"})
          => (result'[p].status = 503 /\ store' = store)]_vars
\* Slot p holds the response of a finished request of handler op, served
\* alone.
Served(p, op) == mode = "serial" /\ Done(p) /\ call[p].op = op

\* The ids of the tracks in a response of get_favorites.
ReturnedIds(body) == {body[i].id : i \in DOMAIN body}

\* C21: track deletion does not cascade: delete_music by the uploader of a
\* stored track removes the track and changes no account's favoriteIds and
\* no playlist's musicIds; get_favorites succeeds and returns exactly the
\* stored tracks among the caller's favoriteIds, each once, omitting the ids
\* that no longer resolve.
C21_DeleteDoesNotCascade ==
    \A p \in Procs :
        /\ (/\ Served(p, "delete_music")
            /\ call[p].target \in DOMAIN pre[p].musics
            /\ pre[p].musics[call[p].target].uploadedBy = call[p].user)
           => /\ result[p].status = 204
              /\ call[p].target \notin DOMAIN musics
              /\ users = pre[p].users
              /\ playlists = pre[p].playlists
        /\ Served(p, "get_favorites")
           => /\ result[p].status = 200
              /\ ReturnedIds(result[p].body)
                    = Elems(users[call[p].user].favoriteIds) \cap DOMAIN musics
              /\ Len(result[p].body) = Cardinality(ReturnedIds(result[p].body))

\* C23: every stored track has a duration of at least 0: upload_music with
\* a negative duration fails and inserts no track document.
C23_DurationNotNegative ==
    /\ \A t \in DOMAIN musics : musics[t].duration >= 0
    /\ \A p \in Procs :
          (Served(p, "upload_music") /\ call[p].arg.duration < 0)
          => (result[p].status # 201 /\ musics = pre[p].musics)

\* C29: after any completed upload_music or delete_music, whether it
\* succeeded or failed, the audio files are exactly the files that the track
\* documents refer to: no file without a document, no document without a
\* file.
C29_BlobAndDocumentPaired ==
    \A p \in Procs :
        (Served(p, "upload_music") \/ Served(p, "delete_music"))
        => files = {filename(musics[t]) : t \in DOMAIN musics}

\* The failure cause of the request in slot p, from the store it started
\* on, in the order the specification checks them: the target does not
\* resolve, the caller does not own it, the track to add does not resolve.
Cause(p) ==
    LET op == call[p].op
        docs == IF op = "delete_music" THEN pre[p].musics ELSE pre[p].playlists
        owner == IF op = "delete_music" THEN "uploadedBy" ELSE "userId"
    IN  IF op \notin PlaylistMutations \cup {"delete_music"} THEN "none"
        ELSE IF call[p].target \notin DOMAIN docs THEN "NotFound"
        ELSE IF docs[call[p].target][owner] # call[p].user THEN "Forbidden"
        ELSE IF op = "add_music_to_playlist" /\ call[p].arg \notin DOMAIN pre[p].musics
        THEN "TrackNotFound"
        ELSE "none"

\* The error kind a response of handler op stands for.
ErrorKind(op, r) ==
    IF r.status = 404 /\ r.detail = "Playlist not found" THEN "NotFound"
    ELSE IF r.status = 404 /\ r.detail = "Music not found"
    THEN IF op = "delete_music" THEN "NotFound" ELSE "TrackNotFound"
    ELSE IF r.status = 403 THEN "Forbidden"
    ELSE IF r.status = 400 /\ r.detail = "Email already registered"
    THEN "DuplicateEmail"
    ELSE IF r.status = 422 THEN "ValidationError"
    ELSE IF r.status >= 500 THEN "unhandled"
    ELSE "none"

\* C22: a consistency operation reports each failure cause as its own error
\* value: a request whose target does not resolve is answered NotFound, one
\* by a caller who does not own the target Forbidden, and an add of a track
\* that does not resolve to an existing playlist TrackNotFound; no two
\* causes share a response.
C22_CausesNotConflated ==
    \A p \in Procs :
        (mode = "serial" /\ Done(p) /\ Cause(p) # "none")
        => ErrorKind(call[p].op, result[p]) = Cause(p)

\* A step leaves the owner and the audio reference of every track that
\* stays stored, and the owner and the creation time of every playlist that
\* stays stored, as they were.
OwnersKept ==
    /\ \A t \in DOMAIN musics \cap DOMAIN musics' :
          /\ musics'[t].uploadedBy = musics[t].uploadedBy
          /\ musics'[t].audioUrl = musics[t].audioUrl
    /\ \A id \in DOMAIN playlists \cap DOMAIN playlists' :
          /\ playlists'[id].userId = playlists[id].userId
          /\ playlists'[id].createdAt = playlists[id].createdAt

\* The playlist doc after an update that supplies arg.
Updated(doc, arg) ==
    [doc EXCEPT !.name = IF arg.name = NoneValue THEN @ ELSE arg.name,
                !.description = IF arg.description = NoneValue THEN @
                                ELSE arg.description]

\* C24: owner ids and audio references are immutable: no operation changes
\* the uploader or the audio reference of a track or the owner of a
\* playlist, and a successful update_playlist changes only the name and the
\* description that the request supplies: userId, musicIds and createdAt of
\* the playlist, and every other document, stay as they were.
C24_OwnersImmutable ==
    /\ [][OwnersKept]_vars
    /\ [](\A p \in Procs :
            (Served(p, "update_playlist") /\ result[p].status = 200)
            => /\ users = pre[p].users
               /\ musics = pre[p].musics
               /\ playlists = [pre[p].playlists EXCEPT ![call[p].target] =
                                  Updated(@, call[p].arg)])

\* The owner has renamed a playlist that holds a track.
C24_Witness ==
    \E p \in Procs :
        /\ Served(p, "update_playlist")
        /\ result[p].status = 200
        /\ call[p].arg.name # NoneValue
        /\ call[p].arg.description = NoneValue
        /\ playlists[call[p].target].musicIds # <<>>
        /\ playlists[call[p].target].name # pre[p].playlists[call[p].target].name

\* The playlists of account u.
OwnedBy(u) == {id \in DOMAIN playlists : playlists[id].userId = u}

\* C30: a playlist is readable only by its owner: get_playlist answers
\* NotFound for an id that does not resolve, Forbidden and no content for a
\* caller who is not the owner, and the playlist for the owner;
\* get_user_playlists returns exactly the playlists whose owner is the
\* caller, each once and as stored.
C30_ReadableByOwnerOnly ==
    \A p \in Procs :
        /\ Served(p, "get_playlist")
           => IF call[p].target \notin DOMAIN playlists
              THEN result[p] = PlaylistNotFound
              ELSE IF playlists[call[p].target].userId # call[p].user
              THEN result[p].status = 403 /\ result[p].body = ""
              ELSE /\ result[p].status = 200
                   /\ result[p].body
                         = [id |-> call[p].target] @@ playlists[call[p].target]
        /\ Served(p, "get_user_playlists")
           => /\ result[p].status = 200
              /\ {result[p].body[i].id : i \in DOMAIN result[p].body}
                    = OwnedBy(call[p].user)
              /\ Len(result[p].body) = Cardinality(OwnedBy(call[p].user))
              /\ \A i \in DOMAIN result[p].body :
                    result[p].body[i]
                       = [id |-> result[p].body[i].id]
                            @@ playlists[result[p].body[i].id]

\* An account has asked for a playlist of the other account that holds a
\* track, and was refused.
C30_Witness ==
    \E p \in Procs :
        /\ Served(p, "get_playlist")
        /\ call[p].target \in DOMAIN playlists
        /\ playlists[call[p].target].userId # call[p].user
        /\ playlists[call[p].target].musicIds # <<>>
        /\ IsForbidden(result[p])

\* C25: a playlist's musicIds never holds the same track id twice, under
\* every interleaving of the owner's add_music_to_playlist calls.
C25_NoDuplicateMusicIds ==
    \A id \in DOMAIN playlists : \A t \in TrackIds :
        Occurrences(playlists[id].musicIds, t) <= 1

\* C26: when the owner's update_playlist, add_music_to_playlist or
\* remove_music_from_playlist races delete_playlist of the same playlist,
\* the call returns the resulting playlist or NotFound, never an unhandled
\* failure, and a deleted playlist is never stored again.
C26_MutationRacingDelete ==
    /\ [](\A p \in Procs :
            (/\ Done(p)
             /\ call[p].op \in PlaylistMutations \ {"delete_playlist"}
             /\ call[p].user = 1
             /\ call[p].target = 1)
            => (result[p].status = 200 \/ result[p] = PlaylistNotFound))
    /\ [][DOMAIN playlists' \subseteq DOMAIN playlists]_vars

\* C27: every operation issues its store calls on the connection manager's
\* active handle: a toggle_favorite that is about to issue a store call
\* issues it on the handle that server.db holds at that moment.
C27_HandlersUseActiveHandle ==
    \A p \in Procs :
        pc[p] \in {"toggle_find_music", "toggle_find_user", "toggle_update"}
        => routes_db = db

\* C28: whenever server.db is not None it was obtained from the current
\* client, and that client has answered a ping and is open.
C28_DbOfPingedCurrentClient ==
    db # "none"
    => /\ client # "none"
       /\ db_client = Len(clients)
       /\ db_client \in pinged
       /\ clients[db_client].open

=============================================================================
